---- MODULE Spec2Model ----
(***************************************************************************)
(* A model of tokio-tun's `Tun` adapter (src/tun/mod.rs): the poll-based   *)
(* byte read/write (AsyncRead::read_buf, AsyncWrite::write_buf), the       *)
(* packet receive sequence (Stream::poll) and the packet sink              *)
(* (Sink::start_send, Sink::poll_complete) on top of a readiness tracker   *)
(* (`io: PollEvented2<platform::Tun>`), a device and a reactor.            *)
(*                                                                         *)
(* Byte strings are kept run-length encoded: a sequence of runs            *)
(* [n |-> length, b |-> byte value], adjacent runs having different bytes, *)
(* so that buffers of the real frame size (1600) stay small values.        *)
(***************************************************************************)
EXTENDS Integers, Sequences, FiniteSets, TLC

VARIABLES
    tun,        \* "none" before Tun::from_tun, "open" once the adapter exists
    io,         \* the PollEvented2 state: [reg, cache, wait]
    kev,        \* per direction: readiness the reactor knows and has not delivered
    rxq,        \* device: packets waiting to be read, [data, acc]
    txq,        \* device: packets written, on their way over the link
    runnable,   \* the task reading the handle is scheduled to poll
    sent,       \* history: the packets start_send has Accepted and no raw read
                \* has consumed yet, oldest first
    nPkts,      \* number of packets that have entered the device so far
    streamErr,  \* history: Stream::poll has returned an error at least once
    last        \* the call that has just returned, until the caller takes its result

vars == <<tun, io, kev, rxq, txq, runnable, sent, nPkts,
          streamErr, last>>

\* ------------------------------------------------------------------ bounds
FrameSize == 1600
MaxQueue == 1
MaxPkts == 2

Dirs == {"read", "write"}

\* ------------------------------------------------- run-length encoded bytes
RECURSIVE BLen(_)
BLen(s) == IF s = <<>> THEN 0 ELSE s[1].n + BLen(Tail(s))

Run(n, b) == IF n <= 0 THEN <<>> ELSE <<[n |-> n, b |-> b]>>

Cat(s, t) ==
    IF s = <<>> THEN t
    ELSE IF t = <<>> THEN s
    ELSE IF s[Len(s)].b = t[1].b
         THEN SubSeq(s, 1, Len(s) - 1)
              \o <<[n |-> s[Len(s)].n + t[1].n, b |-> t[1].b]>>
              \o Tail(t)
         ELSE s \o t

RECURSIVE Take(_, _)
Take(s, k) ==
    IF k <= 0 \/ s = <<>> THEN <<>>
    ELSE IF s[1].n <= k THEN <<s[1]>> \o Take(Tail(s), k - s[1].n)
    ELSE <<[n |-> k, b |-> s[1].b]>>

RECURSIVE Drop(_, _)
Drop(s, k) ==
    IF s = <<>> THEN <<>>
    ELSE IF k <= 0 THEN s
    ELSE IF s[1].n <= k THEN Drop(Tail(s), k - s[1].n)
    ELSE <<[n |-> s[1].n - k, b |-> s[1].b]>> \o Tail(s)

\* [0u8; 1600] / vec![0u8; 1600]
Zeros(n) == Run(n, 0)

\* copying `data` over the front of `buf` (what a raw read does to the buffer)
Fill(buf, data) == Cat(data, Drop(buf, BLen(data)))

Min(a, b) == IF a <= b THEN a ELSE b

\* ------------------------------------------------------------------ inputs
\* packets the device produces on its own: empty, and longer than a frame
ArrivePkts == { <<>>, Run(FrameSize + 1, 1) }
\* packets and byte buffers the caller submits: a full frame, and one byte more
SendPkts == { Cat(Run(1, 2), Run(FrameSize - 1, 3)), Run(FrameSize + 1, 2) }
\* remaining capacity of the buffer the caller passes to read_buf
Caps == { 1, FrameSize }
\* what the environment does to one call: nothing; "io": the raw operation fails;
\* "short": the raw write is short; "query" / "clear": the reactor fails the
\* readiness query / the clearing of readiness (it is gone, or refuses the handle)
ReadFaults == { "none", "io", "query", "clear" }
WriteFaults == { "none", "io", "short", "query", "clear" }
\* faults of a flush, and what the handle's own flush may return
FlushFaults == { "none", "query", "clear" }
FlushResults == { "Ok", "WouldBlock", "Err" }
\* Buf::advance past the end: implementations panic or clamp
AdvanceModes == { "panic", "clamp" }

\* The record of a call: for from_tun the reactor's disposition (f: "none", or
\* "query" when it would refuse a registration); the readiness query's answer, the raw
\* attempts made and their outcome, the directions cleared and the clear's answer,
\* the result and its payload; as history, the writer of the packet a raw read
\* consumed (src), the bytes that read transferred (got), that packet as it was
\* submitted (orig), the directions whose cached readiness the call changed, the
\* device queues it changed (moved) and the bytes it put into the device (wrote).
\* cap is the room of the buffer passed to read_buf.
NoCall == [op |-> "none", f |-> "-", query |-> "-", raws |-> 0, raw |-> "-",
           n |-> 0, cleared |-> {}, clr |-> "-", res |-> "-", kind |-> "-",
           arg |-> <<>>, cap |-> 0, val |-> <<>>, src |-> "-", got |-> <<>>,
           orig |-> <<>>, changed |-> {}, moved |-> {}, wrote |-> 0]

\* ------------------------------------------------- the world a call acts on
World == [io |-> io, kev |-> kev, rxq |-> rxq, txq |-> txq]

\* ------------------------------------- readiness tracker (PollEvented2)
\* poll_read_ready / poll_write_ready: the cached readiness of direction d.
\* Ready is answered from the cache; Unknown asks the reactor once and caches
\* the answer; NotReady is answered at once, the task waiting for the wake.
\* The first call registers the handle; the call fails when the reactor does.
poll_ready(w, d, f) ==
    IF f = "query" THEN [res |-> "Err", w |-> w]
    ELSE LET t == [w.io EXCEPT !.reg = TRUE] IN
         CASE t.cache[d] = "Ready" ->
                [res |-> "Ready", w |-> [w EXCEPT !.io = t]]
           [] t.cache[d] = "NotReady" ->
                [res |-> "NotReady",
                 w |-> [w EXCEPT !.io = [t EXCEPT !.wait[d] = TRUE]]]
           [] OTHER ->
                IF w.kev[d]
                THEN [res |-> "Ready",
                      w |-> [w EXCEPT !.io = [t EXCEPT !.cache[d] = "Ready",
                                                       !.wait[d] = FALSE],
                                      !.kev[d] = FALSE]]
                ELSE [res |-> "NotReady",
                      w |-> [w EXCEPT !.io = [t EXCEPT !.cache[d] = "NotReady",
                                                       !.wait[d] = TRUE]]]

\* clear_read_ready / clear_write_ready: the cache of direction d goes back to
\* Unknown and interest is registered again with the reactor.
clear_ready(w, d, f) ==
    IF f = "clear"
    THEN [res |-> "Err", w |-> [w EXCEPT !.io.cache[d] = "Unknown"]]
    ELSE [res |-> "Ok",
          w |-> [w EXCEPT !.io = [w.io EXCEPT !.reg = TRUE,
                                              !.cache[d] = "Unknown",
                                              !.wait[d] = TRUE]]]

\* --------------------------------------------------- raw handle operations
\* self.io.read(&mut buf): one packet per read, cut to the buffer's length;
\* would-block when the device has nothing; f = "io" is an OS failure.
\* (PollEvented2's read and write consult the readiness the caller has just found
\* Ready and clear it on would-block, as the caller then does again: the handlers
\* see the outcome of the handle's operation.)
io_read(w, buflen, f) ==
    IF f = "io"
    THEN [res |-> "Err", n |-> 0, data |-> <<>>, src |-> "-", w |-> w]
    ELSE IF w.rxq = <<>>
    THEN [res |-> "WouldBlock", n |-> 0, data |-> <<>>, src |-> "-", w |-> w]
    ELSE LET d == Take(Head(w.rxq).data, buflen) IN
         [res |-> "Ok", n |-> BLen(d), data |-> d, src |-> Head(w.rxq).src,
          w |-> [w EXCEPT !.rxq = Tail(w.rxq)]]

\* how many bytes a raw write of len bytes transfers under fault f
Written(len, f) ==
    IF f = "short" THEN Min(1, len) ELSE len

\* self.io.write(&bytes): the device takes the bytes as one datagram; would-block
\* when its queue is full; f = "io" is an OS failure, "short" a short write.
\* The history tag src names the writer of a whole packet, "cut" a short one.
io_write(w, data, f, who) ==
    IF f = "io" THEN [res |-> "Err", n |-> 0, w |-> w]
    ELSE IF Len(w.txq) >= MaxQueue THEN [res |-> "WouldBlock", n |-> 0, w |-> w]
    ELSE LET k == Written(BLen(data), f) IN
         [res |-> "Ok", n |-> k,
          w |-> [w EXCEPT !.txq = Append(w.txq,
                    [data |-> Take(data, k),
                     src |-> IF k = BLen(data) THEN who ELSE "cut"])]]

\* self.io.flush(): PollEvented2's flush asks for the write readiness first and
\* answers would-block when it is not ready; otherwise it flushes the handle
\* (fl is what the handle's own flush returns) and clears the write readiness
\* when that says would-block.
io_flush(w, f, fl) ==
    LET q == poll_ready(w, "write", f) IN
    IF q.res = "Err"
    THEN [res |-> "Err", kind |-> "Reactor", query |-> "Err", w |-> q.w]
    ELSE IF q.res = "NotReady"
    THEN [res |-> "WouldBlock", kind |-> "-", query |-> "NotReady", w |-> q.w]
    ELSE IF fl = "WouldBlock"
    THEN LET cl == clear_ready(q.w, "write", f) IN
         IF cl.res = "Err"
         THEN [res |-> "Err", kind |-> "Reactor", query |-> "Ready", w |-> cl.w]
         ELSE [res |-> "WouldBlock", kind |-> "-", query |-> "Ready", w |-> cl.w]
    ELSE [res |-> fl, kind |-> IF fl = "Err" THEN "Io" ELSE "-",
          query |-> "Ready", w |-> q.w]

\* a call record, before anything has happened in the call
Call(op, arg, f) == [NoCall EXCEPT !.op = op, !.arg = arg, !.f = f]

\* ------------------------------------------------------------ the handlers
\* Each handler is a function of the world, the caller's input and the fault f
\* the environment injects into the call; it returns the new world and the call
\* record. The arms of a handler's match are operators of their own.

\* the `?` on poll_read_ready / poll_write_ready: the query's error is returned
query_err(q, c0) ==
    [w |-> q.w, call |-> [c0 EXCEPT !.query = "Err", !.res = "Err", !.kind = "Reactor"]]

\* the record of a call whose readiness query said Ready and whose raw attempt
\* r has been made
Attempt(c0, r) == [c0 EXCEPT !.query = "Ready", !.raws = 1, !.raw = r.res, !.n = r.n]

\* read_buf_nr that clears the read readiness before it returns
read_buf_nr_clear(q, c0) ==
    LET cl == clear_ready(q.w, "read", "none") IN
    [w |-> cl.w,
     call |-> [c0 EXCEPT !.query = "NotReady", !.cleared = {"read"}, !.clr = cl.res,
                         !.res = "NotReady"]]

\* AsyncRead::read_buf: return Ok(Async::NotReady) on a not-ready query
read_buf_nr(q, c0) ==
    [w |-> q.w, call |-> [c0 EXCEPT !.query = "NotReady", !.res = "NotReady"]]

\* AsyncRead::read_buf: the raw read returned would-block
read_buf_wb(r, f, c1) ==
    LET cl == clear_ready(r.w, "read", f)
        c2 == [c1 EXCEPT !.cleared = {"read"}, !.clr = cl.res]
    IN IF cl.res = "Err"
       THEN [w |-> cl.w, call |-> [c2 EXCEPT !.res = "Err", !.kind = "Reactor"]]
       ELSE [w |-> cl.w, call |-> [c2 EXCEPT !.res = "NotReady"]]

\* AsyncRead::read_buf: Err(e) of another kind: Err(e)
read_buf_err(r, c1) ==
    [w |-> r.w, call |-> [c1 EXCEPT !.res = "Err", !.kind = "Io"]]

\* AsyncRead::read_buf: Ok(bytes_read); buf.put_slice asserts that the caller's
\* buffer has room for the slice
read_buf_ok(r, stack_buf, cap, c1) ==
    IF r.n > cap
    THEN [w |-> r.w, call |-> [c1 EXCEPT !.res = "Panic"]]
    ELSE [w |-> r.w,
          call |-> [c1 EXCEPT !.res = "Ready",
                              !.val = Take(Fill(stack_buf, r.data), r.n)]]

\* AsyncRead::read_buf, cap = buf.remaining_mut()
read_buf(w, cap, f) ==
    LET c0 == [Call("read_buf", <<>>, "-") EXCEPT !.cap = cap]
        q == poll_ready(w, "read", f)
    IN
    IF q.res = "Err" THEN query_err(q, c0)
    ELSE IF q.res = "NotReady" THEN read_buf_nr(q, c0)
    ELSE
    LET stack_buf == Zeros(FrameSize)
        r == io_read(q.w, BLen(stack_buf), f)
        c1 == [Attempt(c0, r) EXCEPT !.src = r.src, !.got = r.data]
    IN
    CASE r.res = "WouldBlock" -> read_buf_wb(r, f, c1)
      [] r.res = "Err" -> read_buf_err(r, c1)
      [] OTHER -> read_buf_ok(r, stack_buf, cap, c1)

\* AsyncWrite::write_buf: return Ok(Async::NotReady) on a not-ready query
write_buf_nr(q, c0) ==
    [w |-> q.w, call |-> [c0 EXCEPT !.query = "NotReady", !.res = "NotReady"]]

\* write_buf_wb that clears the read direction
write_buf_wb_read(r, f, c1) ==
    LET cl == clear_ready(r.w, "read", f)
        c2 == [c1 EXCEPT !.cleared = {"read"}, !.clr = cl.res]
    IN IF cl.res = "Err"
       THEN [w |-> cl.w, call |-> [c2 EXCEPT !.res = "Err", !.kind = "Reactor"]]
       ELSE [w |-> cl.w, call |-> [c2 EXCEPT !.res = "NotReady"]]

\* AsyncWrite::write_buf: the raw write returned would-block
write_buf_wb(r, f, c1) ==
    LET cl == clear_ready(r.w, "write", f)
        c2 == [c1 EXCEPT !.cleared = {"write"}, !.clr = cl.res]
    IN IF cl.res = "Err"
       THEN [w |-> cl.w, call |-> [c2 EXCEPT !.res = "Err", !.kind = "Reactor"]]
       ELSE [w |-> cl.w, call |-> [c2 EXCEPT !.res = "NotReady"]]

\* AsyncWrite::write_buf: Err(e) of another kind: Err(e)
write_buf_err(r, c1) ==
    [w |-> r.w, call |-> [c1 EXCEPT !.res = "Err", !.kind = "Io"]]

\* AsyncWrite::write_buf: Ok(bytes_written). buf.collect() has drained buf through
\* the &mut reference, so buf.advance(bytes_written) runs on an exhausted buffer:
\* with bytes_written > 0 it panics or clamps, as the Buf implementation chooses.
write_buf_ok(r, bytes, adv, c1) ==
    IF r.n > 0 /\ adv = "panic"
    THEN [w |-> r.w, call |-> [c1 EXCEPT !.res = "Panic"]]
    ELSE IF r.n < BLen(bytes)
    THEN [w |-> r.w, call |-> [c1 EXCEPT !.res = "Err", !.kind = "WriteZero"]]
    ELSE [w |-> r.w, call |-> [c1 EXCEPT !.res = "Ready"]]

\* AsyncWrite::write_buf, data = the bytes remaining in the caller's buf
write_buf(w, data, f, adv) ==
    LET c0 == Call("write_buf", data, "-")
        q == poll_ready(w, "write", f)
    IN
    IF q.res = "Err" THEN query_err(q, c0)
    ELSE IF q.res = "NotReady" THEN write_buf_nr(q, c0)
    ELSE
    LET bytes == data
        r == io_write(q.w, bytes, f, "bytes")
        c1 == Attempt(c0, r)
    IN
    CASE r.res = "WouldBlock" -> write_buf_wb(r, f, c1)
      [] r.res = "Err" -> write_buf_err(r, c1)
      [] OTHER -> write_buf_ok(r, bytes, adv, c1)

\* poll_nr that reads ahead and keeps the packet for the next advance
poll_nr_prefetch(q, c0) ==
    LET r == io_read(q.w, FrameSize, "none") IN
    [w |-> r.w, call |-> [c0 EXCEPT !.query = "NotReady", !.res = "NotReady"]]

\* Stream::poll: return Ok(Async::NotReady) on a not-ready query
poll_nr(q, c0) ==
    [w |-> q.w, call |-> [c0 EXCEPT !.query = "NotReady", !.res = "NotReady"]]

\* poll_wb with the clear forgotten
poll_wb_noclear(r, f, c1) ==
    [w |-> r.w, call |-> [c1 EXCEPT !.res = "NotReady"]]

\* Stream::poll: the raw read returned would-block
poll_wb(r, f, c1) ==
    LET cl == clear_ready(r.w, "read", f)
        c2 == [c1 EXCEPT !.cleared = {"read"}, !.clr = cl.res]
    IN IF cl.res = "Err"
       THEN [w |-> cl.w, call |-> [c2 EXCEPT !.res = "Err", !.kind = "Reactor"]]
       ELSE [w |-> cl.w, call |-> [c2 EXCEPT !.res = "NotReady"]]

\* Stream::poll: Err(e) of another kind: Err(e)
poll_err(r, c1) ==
    [w |-> r.w, call |-> [c1 EXCEPT !.res = "Err", !.kind = "Io"]]

\* poll_ok of a sequence that ends itself after an error
poll_ok_fused(r, buf, c1) ==
    IF streamErr
    THEN [w |-> r.w, call |-> [c1 EXCEPT !.res = "None"]]
    ELSE [w |-> r.w,
          call |-> [c1 EXCEPT !.res = "Some", !.val = Take(Fill(buf, r.data), r.n)]]

\* poll_ok that produces nothing for a read of zero bytes
poll_ok_skip(r, buf, c1) ==
    IF r.n = 0
    THEN [w |-> r.w, call |-> [c1 EXCEPT !.res = "NotReady"]]
    ELSE [w |-> r.w,
          call |-> [c1 EXCEPT !.res = "Some", !.val = Take(Fill(buf, r.data), r.n)]]

\* poll_ok that takes a read of zero bytes for the end of the sequence
poll_ok_eof(r, buf, c1) ==
    IF r.n = 0
    THEN [w |-> r.w, call |-> [c1 EXCEPT !.res = "None"]]
    ELSE [w |-> r.w,
          call |-> [c1 EXCEPT !.res = "Some", !.val = Take(Fill(buf, r.data), r.n)]]

\* poll_ok with the truncate forgotten
poll_ok_notrunc(r, buf, c1) ==
    [w |-> r.w, call |-> [c1 EXCEPT !.res = "Some", !.val = Fill(buf, r.data)]]

\* Stream::poll: Ok(bytes_read); buf.truncate(bytes_read);
\* Ok(Async::Ready(Some(buf.into_boxed_slice())))
poll_ok(r, buf, c1) ==
    [w |-> r.w,
     call |-> [c1 EXCEPT !.res = "Some", !.val = Take(Fill(buf, r.data), r.n)]]

\* Stream::poll
poll(w, f) ==
    LET c0 == Call("poll", <<>>, "-")
        q == poll_ready(w, "read", f)
    IN
    IF q.res = "Err" THEN query_err(q, c0)
    ELSE IF q.res = "NotReady" THEN poll_nr(q, c0)
    ELSE
    LET buf == Zeros(FrameSize)
        r == io_read(q.w, BLen(buf), f)
        c1 == [Attempt(c0, r) EXCEPT !.src = r.src, !.got = r.data]
    IN
    CASE r.res = "WouldBlock" -> poll_wb(r, f, c1)
      [] r.res = "Err" -> poll_err(r, c1)
      [] OTHER -> poll_ok(r, buf, c1)

\* start_send_nr that hands back a copy cut to the frame size
start_send_nr_cut(q, item, c0) ==
    [w |-> q.w,
     call |-> [c0 EXCEPT !.query = "NotReady", !.res = "NotReady",
                         !.val = Take(item, FrameSize)]]

\* Sink::start_send: return Ok(AsyncSink::NotReady(item)) on a not-ready query
start_send_nr(q, item, c0) ==
    [w |-> q.w,
     call |-> [c0 EXCEPT !.query = "NotReady", !.res = "NotReady", !.val = item]]

\* start_send_wb with the clear forgotten
start_send_wb_noclear(r, item, f, c1) ==
    [w |-> r.w, call |-> [c1 EXCEPT !.res = "NotReady", !.val = item]]

\* Sink::start_send: the raw write returned would-block
start_send_wb(r, item, f, c1) ==
    LET cl == clear_ready(r.w, "write", f)
        c2 == [c1 EXCEPT !.cleared = {"write"}, !.clr = cl.res]
    IN IF cl.res = "Err"
       THEN [w |-> cl.w, call |-> [c2 EXCEPT !.res = "Err", !.kind = "Reactor"]]
       ELSE [w |-> cl.w, call |-> [c2 EXCEPT !.res = "NotReady", !.val = item]]

\* start_send_err that shuts the write side: the write readiness is cleared
start_send_err_close(r, c1) ==
    LET cl == clear_ready(r.w, "write", "none") IN
    [w |-> cl.w, call |-> [c1 EXCEPT !.res = "Err", !.kind = "Io"]]

\* start_send_err that tries the write once more before it gives up
start_send_err_retry(r, c1) ==
    LET r2 == io_write(r.w, c1.arg, "none", "send") IN
    [w |-> r2.w,
     call |-> [c1 EXCEPT !.raws = 2, !.raw = r2.res, !.n = r2.n,
                         !.res = IF r2.res = "Ok" THEN "Ready" ELSE "Err",
                         !.kind = IF r2.res = "Ok" THEN "-" ELSE "Io"]]

\* Sink::start_send: Err(e) of another kind: Err(e)
start_send_err(r, c1) ==
    [w |-> r.w, call |-> [c1 EXCEPT !.res = "Err", !.kind = "Io"]]

\* start_send_ok that asks the caller to try again after a short write
start_send_ok_pending(r, item, c1) ==
    IF r.n < BLen(item)
    THEN [w |-> r.w, call |-> [c1 EXCEPT !.res = "NotReady", !.val = item]]
    ELSE [w |-> r.w, call |-> [c1 EXCEPT !.res = "Ready"]]

\* start_send_ok that takes any write of at least one byte as complete
start_send_ok_partial(r, item, c1) ==
    IF r.n = 0 /\ BLen(item) > 0
    THEN [w |-> r.w, call |-> [c1 EXCEPT !.res = "Err", !.kind = "WriteZero"]]
    ELSE [w |-> r.w, call |-> [c1 EXCEPT !.res = "Ready"]]

\* Sink::start_send: Ok(bytes_written)
start_send_ok(r, item, c1) ==
    IF r.n < BLen(item)
    THEN [w |-> r.w, call |-> [c1 EXCEPT !.res = "Err", !.kind = "WriteZero"]]
    ELSE [w |-> r.w, call |-> [c1 EXCEPT !.res = "Ready"]]

\* Sink::start_send
start_send(w, item, f) ==
    LET c0 == Call("start_send", item, "-")
        q == poll_ready(w, "write", f)
    IN
    IF q.res = "Err" THEN query_err(q, c0)
    ELSE IF q.res = "NotReady" THEN start_send_nr(q, item, c0)
    ELSE
    LET r == io_write(q.w, item, f, "send")
        c1 == Attempt(c0, r)
    IN
    CASE r.res = "WouldBlock" -> start_send_wb(r, item, f, c1)
      [] r.res = "Err" -> start_send_err(r, c1)
      [] OTHER -> start_send_ok(r, item, c1)

\* poll_complete that ignores what flush returns
poll_complete_always(w, f, fl) ==
    LET r == io_flush(w, f, fl) IN
    [w |-> r.w,
     call |-> [Call("poll_complete", <<>>, "-")
                 EXCEPT !.query = r.query, !.raw = r.res, !.res = "Ready"]]

\* Sink::poll_complete: try_nb!(self.io.flush()); Ok(Async::Ready(())).
\* try_nb! turns a would-block from the flush into NotReady and returns any
\* other error.
poll_complete(w, f, fl) ==
    LET r == io_flush(w, f, fl)
        c0 == [Call("poll_complete", <<>>, "-") EXCEPT !.query = r.query, !.raw = r.res]
    IN
    CASE r.res = "WouldBlock" -> [w |-> r.w, call |-> [c0 EXCEPT !.res = "NotReady"]]
      [] r.res = "Err" -> [w |-> r.w, call |-> [c0 EXCEPT !.res = "Err", !.kind = r.kind]]
      [] OTHER -> [w |-> r.w, call |-> [c0 EXCEPT !.res = "Ready"]]

\* from_tun that registers the handle at once and fails when that fails
from_tun_eager(up) ==
    IF up
    THEN [tun |-> "open", reg |-> TRUE,
          call |-> [Call("from_tun", <<>>, "none") EXCEPT !.res = "Ok"]]
    ELSE [tun |-> "none", reg |-> FALSE,
          call |-> [Call("from_tun", <<>>, "query")
                      EXCEPT !.res = "Err", !.kind = "Reactor"]]

\* Tun::from_tun: Ok(Tun { io: PollEvented2::new(tun) }); nothing in it can fail,
\* whatever the reactor would answer (up), and it does not register the handle.
from_tun(up) ==
    [tun |-> "open", reg |-> FALSE,
     call |-> [Call("from_tun", <<>>, IF up THEN "none" ELSE "query")
                 EXCEPT !.res = "Ok"]]

\* ----------------------------------------------------------------- actions
Init ==
    /\ tun = "none"
    /\ io = [reg |-> FALSE,
             cache |-> [d \in Dirs |-> "Unknown"],
             wait |-> [d \in Dirs |-> FALSE]]
    /\ kev = [read |-> FALSE, write |-> TRUE]
    /\ rxq = <<>>
    /\ txq = <<>>
    /\ runnable = TRUE
    /\ sent = <<>>
    /\ nPkts = 0
    /\ streamErr = FALSE
    /\ last = NoCall

ReadOps == {"read_buf", "poll"}
WriteOps == {"write_buf", "start_send", "poll_complete"}

\* the effect of a handler's return on the state and on the histories
Apply(r) ==
    /\ last = NoCall
    /\ io' = r.w.io
    /\ kev' = r.w.kev
    /\ rxq' = r.w.rxq
    /\ txq' = r.w.txq
    /\ last' = [r.call EXCEPT
                  !.changed = {d \in Dirs : r.w.io.cache[d] # io.cache[d]},
                  !.moved = (IF r.w.rxq # rxq THEN {"rxq"} ELSE {})
                            \cup (IF r.w.txq # txq THEN {"txq"} ELSE {}),
                  !.wrote = IF Len(r.w.txq) > Len(txq)
                            THEN BLen(r.w.txq[Len(r.w.txq)].data) ELSE 0,
                  !.orig = IF r.call.src = "send" /\ sent # <<>>
                           THEN Head(sent) ELSE <<>>]
    /\ runnable' = IF r.call.op \in ReadOps THEN r.call.res # "NotReady" ELSE runnable
    /\ sent' = IF r.call.op = "start_send" /\ r.call.res = "Ready"
               THEN Append(sent, r.call.arg)
               ELSE IF r.call.src = "send" /\ sent # <<>> THEN Tail(sent)
               ELSE sent
    /\ nPkts' = IF r.w.txq # txq THEN nPkts + 1 ELSE nPkts
    /\ nPkts' <= MaxPkts
    /\ streamErr' = (streamErr \/ (r.call.op = "poll" /\ r.call.res = "Err"))
    /\ UNCHANGED tun

\* up: whether the reactor would accept a registration at this moment
FromTun(up) ==
    /\ last = NoCall
    /\ tun = "none"
    /\ \E r \in {from_tun(up)} :
         /\ tun' = r.tun
         /\ io' = [io EXCEPT !.reg = r.reg]
         /\ last' = r.call
    /\ UNCHANGED <<kev, rxq, txq, runnable, sent, nPkts, streamErr>>

ReadBuf(cap, f) ==
    tun = "open" /\ last = NoCall /\ \E r \in {read_buf(World, cap, f)} : Apply(r)

WriteBuf(data, f, adv) ==
    tun = "open" /\ last = NoCall /\ \E r \in {write_buf(World, data, f, adv)} : Apply(r)

StreamPoll(f) ==
    tun = "open" /\ last = NoCall /\ \E r \in {poll(World, f)} : Apply(r)

StartSend(item, f) ==
    tun = "open" /\ last = NoCall /\ \E r \in {start_send(World, item, f)} : Apply(r)

PollComplete(f, fl) ==
    tun = "open" /\ last = NoCall /\ \E r \in {poll_complete(World, f, fl)} : Apply(r)

\* the device produces a packet of its own
DeviceArrive(p) ==
    /\ last = NoCall
    /\ tun = "open"
    /\ nPkts < MaxPkts
    /\ Len(rxq) < MaxQueue
    /\ rxq' = Append(rxq, [data |-> p, src |-> "dev"])
    /\ kev' = [kev EXCEPT !.read = TRUE]
    /\ nPkts' = nPkts + 1
    /\ UNCHANGED last
    /\ UNCHANGED <<tun, io, txq, runnable, sent, streamErr>>

\* the loop-back link carries the oldest written packet to the read side
LinkDeliver ==
    /\ last = NoCall
    /\ txq # <<>>
    /\ Len(rxq) < MaxQueue
    /\ rxq' = Append(rxq, Head(txq))
    /\ txq' = Tail(txq)
    /\ kev' = [kev EXCEPT !.read = TRUE,
                          !.write = (kev.write \/ Len(txq) >= MaxQueue)]
    /\ UNCHANGED last
    /\ UNCHANGED <<tun, io, runnable, sent, nPkts, streamErr>>

\* the reactor delivers a readiness notification to the waiting task
ReactorNotify(d) ==
    /\ last = NoCall
    /\ io.reg
    /\ kev[d]
    /\ io.wait[d]
    /\ io' = [io EXCEPT !.cache[d] = "Ready", !.wait[d] = FALSE]
    /\ kev' = [kev EXCEPT ![d] = FALSE]
    /\ runnable' = (runnable \/ d = "read")
    /\ UNCHANGED last
    /\ UNCHANGED <<tun, rxq, txq, sent, nPkts, streamErr>>

\* the caller takes the result of the call; calls do not overlap (the adapter is
\* driven from one thread, and each call runs to its return)
Return ==
    /\ last # NoCall
    /\ last' = NoCall
    /\ UNCHANGED <<tun, io, kev, rxq, txq, runnable, sent, nPkts, streamErr>>

Next ==
    \/ \E up \in BOOLEAN : FromTun(up)
    \/ \E cap \in Caps, f \in ReadFaults : ReadBuf(cap, f)
    \/ \E data \in SendPkts, f \in WriteFaults, adv \in AdvanceModes : WriteBuf(data, f, adv)
    \/ \E f \in ReadFaults : StreamPoll(f)
    \/ \E item \in SendPkts, f \in WriteFaults : StartSend(item, f)
    \/ \E f \in FlushFaults, fl \in FlushResults : PollComplete(f, fl)
    \/ \E p \in ArrivePkts : DeviceArrive(p)
    \/ LinkDeliver
    \/ \E d \in Dirs : ReactorNotify(d)
    \/ Return

Spec == Init /\ [][Next]_vars

\* ------------------------------------------- the reader task under fairness
\* The task reading the handle polls only while it is scheduled: after a pending
\* result it is parked until the reactor notifies it. A writer submits packets
\* whenever it likes. No faults are injected. The executor runs a scheduled task
\* and the reactor delivers a due notification in the end, however the calls of
\* the writer fall in between (strong fairness: calls do not overlap, so each
\* call in progress disables the others for a moment).
ReaderPoll == runnable /\ StreamPoll("none")

ReaderRead == runnable /\ ReadBuf(FrameSize, "none")

ReaderStep == ReaderPoll \/ ReaderRead

LiveNext ==
    \/ FromTun(TRUE)
    \/ \E p \in ArrivePkts : DeviceArrive(p)
    \/ \E item \in SendPkts : StartSend(item, "none")
    \/ LinkDeliver
    \/ \E d \in Dirs : ReactorNotify(d)
    \/ ReaderPoll
    \/ ReaderRead
    \/ Return

LiveSpec ==
    /\ Init
    /\ [][LiveNext]_vars
    /\ WF_vars(FromTun(TRUE))
    /\ WF_vars(Return)
    /\ SF_vars(ReactorNotify("read"))
    /\ SF_vars(ReaderStep)

\* ------------------------------------------------------------------ claims
PollOps == {"read_buf", "write_buf", "poll", "start_send"}
DirOf(op) == IF op \in ReadOps THEN "read" ELSE "write"

\* the raw attempt of the call that has just returned said would-block
WouldBlocked == last.op \in PollOps /\ last.raw = "WouldBlock"

\* C1 as stated: a would-block from the raw attempt always ends in a cleared
\* readiness of that direction and the pending signal.
C1_Original ==
    WouldBlocked => (last.cleared = {DirOf(last.op)} /\ last.res = "NotReady")

\* C1 amended: when the raw attempt of a poll-based operation returns would-block,
\* the operation calls the clear of that same direction and of no other before
\* it returns; it returns pending, with the readiness back to Unknown and the
\* interest registered, when the clear succeeds, and the clear's own error when
\* the clear fails; it never returns an error of kind would-block.
C1_WouldBlockClears ==
    WouldBlocked =>
        /\ last.cleared = {DirOf(last.op)}
        /\ last.kind # "WouldBlock"
        /\ last.clr \in {"Ok", "Err"}
        /\ last.clr = "Ok" =>
             /\ last.res = "NotReady"
             /\ io.cache[DirOf(last.op)] = "Unknown"
             /\ io.wait[DirOf(last.op)]
        /\ last.clr = "Err" => (last.res = "Err" /\ last.kind = "Reactor")

C1_Witness ==
    /\ last.op = "start_send"
    /\ last.raw = "WouldBlock"
    /\ last.res = "NotReady"
    /\ last.cleared = {"write"}

\* C2: a reader parked by a pending result is always registered for the wake,
\* and, notifications and the reader being scheduled fairly, a packet waiting in
\* the device is always read in the end: no wakeup is lost.
C2_NoLostWakeup ==
    /\ [](~runnable => (io.wait["read"] /\ io.cache["read"] # "Ready"))
    /\ ((rxq # <<>>) ~> (rxq = <<>>))

\* the reader is parked after a would-block (the clear left Unknown behind) and
\* a packet has arrived since, which the reactor has yet to announce
C2_Witness ==
    /\ ~runnable
    /\ io.cache["read"] = "Unknown"
    /\ rxq # <<>>
    /\ kev["read"]

C4_Backpressure ==
    (last.op = "start_send" /\ last.query = "NotReady") =>
        (last.res = "NotReady" /\ last.val = last.arg /\ last.raws = 0)

C4_Witness ==
    /\ last.op = "start_send"
    /\ last.query = "NotReady"
    /\ BLen(last.arg) > FrameSize
    /\ last.val = last.arg

\* C5: a raw write that transfers fewer bytes than requested makes start_send and
\* write_buf report an error, with that one raw write only.
C5_ShortWriteFatal ==
    (last.op \in {"start_send", "write_buf"} /\ last.raw = "Ok"
        /\ last.n < BLen(last.arg))
    => (last.res = "Err" /\ last.raws = 1)

\* number of packets Accepted by start_send that a queue holds
RECURSIVE Accepted(_)
Accepted(q) ==
    IF q = <<>> THEN 0
    ELSE (IF Head(q).src = "send" THEN 1 ELSE 0) + Accepted(Tail(q))

\* C6: every packet start_send has Accepted is in the device or on the link
\* exactly once until exactly one raw read consumes it, oldest first; and the
\* advance that consumes a packet of at most 1600 bytes yields a Packet equal to
\* the one submitted.
C6_RoundTrip ==
    /\ Len(sent) = Accepted(txq) + Accepted(rxq)
    /\ (last.op = "poll" /\ last.src = "send" /\ BLen(last.orig) <= FrameSize)
         => (last.res = "Some" /\ last.val = last.orig)

C6_Witness ==
    /\ last.op = "poll"
    /\ last.src = "send"
    /\ BLen(last.orig) = FrameSize
    /\ last.val = last.orig
    /\ Len(sent) = 1

\* C7: no write-direction call changes the cached read readiness and no
\* read-direction call changes the cached write readiness, whatever its outcome.
C7_Independence ==
    /\ last.op \in ReadOps => "write" \notin last.changed
    /\ last.op \in WriteOps => "read" \notin last.changed

C7_Witness ==
    /\ last.op = "write_buf"
    /\ last.raw = "WouldBlock"
    /\ last.cleared = {"write"}
    /\ io.cache["read"] = "Ready"

C9_Original ==
    last.op = "poll_complete" =>
        (last.res = "Ready" /\ last.changed = {} /\ last.raws = 0)

\* C9 amended: poll_complete returns Ready(()) when the flush of the handle
\* succeeds, pending when the flush reports would-block (as it does whenever the
\* write readiness is not ready) and the flush's error otherwise; it makes no raw
\* read or write and leaves the cached read readiness as it was.
C9_FlushResult ==
    last.op = "poll_complete" =>
        /\ \/ (last.raw = "Ok" /\ last.res = "Ready")
           \/ (last.raw = "WouldBlock" /\ last.res = "NotReady")
           \/ (last.raw = "Err" /\ last.res = "Err")
        /\ last.query = "NotReady" => last.res = "NotReady"
        /\ last.raws = 0
        /\ "read" \notin last.changed

C9_Witness ==
    /\ last.op = "poll_complete"
    /\ last.query = "NotReady"
    /\ last.res = "NotReady"

\* the raw read of the advance that has just returned succeeded with zero bytes
ZeroRead == last.op = "poll" /\ last.raw = "Ok" /\ last.n = 0

Failed == last.query = "Err" \/ last.raw = "Err" \/ last.clr = "Err"

\* C11: no advance of the receive sequence reports end-of-sequence, and an advance
\* that meets no failure yields one Packet (when its raw read succeeds) or is
\* pending (when the readiness is not ready or the raw read would block).
C11_NoEndWithoutError ==
    last.op = "poll" =>
        /\ last.res # "None"
        /\ ~Failed =>
             /\ last.res \in {"Some", "NotReady"}
             /\ (last.res = "Some") <=> (last.raw = "Ok")
             /\ (last.res = "NotReady") <=>
                  (last.query = "NotReady" \/ last.raw = "WouldBlock")

\* a failure-free advance on a device that has been drained of its packets:
\* pending, and the sequence goes on
C11_Witness ==
    /\ last.op = "poll"
    /\ ~Failed
    /\ last.raw = "WouldBlock"
    /\ last.res = "NotReady"
    /\ nPkts = MaxPkts
    /\ txq = <<>>

\* the bytes of a byte string are all other than b
RECURSIVE Without(_, _)
Without(s, b) == s = <<>> \/ (Head(s).b # b /\ Without(Tail(s), b))

\* C12: a Packet the receive sequence yields is exactly the bytes the raw read
\* transferred: as long as the count the read returned, at most 1600 bytes, and
\* with none of the scratch buffer's zero bytes behind them.
C12_ExactBytes ==
    (last.op = "poll" /\ last.res = "Some") =>
        /\ last.val = last.got
        /\ BLen(last.val) = last.n
        /\ last.n <= FrameSize
        /\ Without(last.val, 0)

\* a packet of the device longer than a frame, of which the read took 1600 bytes
C12_Witness ==
    /\ last.op = "poll"
    /\ last.res = "Some"
    /\ last.src = "dev"
    /\ BLen(last.val) = FrameSize

\* C13: a start_send that returns an error has made at most one raw write and
\* leaves the handle usable: the next start_send, of any packet, queries the
\* write readiness, makes its one raw write when that is Ready, and is Accepted
\* when the device has room, putting its own packet and nothing else into the
\* device; after a failure of the raw write itself the readiness is still Ready,
\* so that the next start_send does make its raw write.
C13_SendErrorNotSticky ==
    (last.op = "start_send" /\ last.res = "Err") =>
        /\ last.raws <= 1
        /\ last.val = <<>>
        /\ \A item \in SendPkts :
             LET nxt == start_send(World, item, "none") IN
             /\ nxt.call.query \in {"Ready", "NotReady"}
             /\ nxt.call.query = "Ready" => nxt.call.raws = 1
             /\ last.raw = "Err" => nxt.call.query = "Ready"
             /\ nxt.w.txq \in {txq, Append(txq, [data |-> item, src |-> "send"])}
             /\ (nxt.call.query = "Ready" /\ Len(txq) < MaxQueue) =>
                  /\ nxt.call.res = "Ready"
                  /\ nxt.w.txq = Append(txq, [data |-> item, src |-> "send"])

\* a start_send has failed in its raw write, and the start_send of another packet
\* that follows it is Accepted
C13_Witness ==
    /\ last.op = "start_send"
    /\ last.res = "Err"
    /\ last.raw = "Err"
    /\ \E item \in SendPkts :
         /\ item # last.arg
         /\ start_send(World, item, "none").call.res = "Ready"

\* C14: when the readiness query of its direction answers not ready, a poll-based
\* operation returns pending, not an error, without a raw read or write and
\* without a clear of readiness.
C14_NotReadyTouchesNothing ==
    (last.op \in PollOps /\ last.query = "NotReady") =>
        /\ last.res = "NotReady"
        /\ last.kind = "-"
        /\ last.raws = 0
        /\ last.raw = "-"
        /\ last.cleared = {}
        /\ last.clr = "-"

\* read_buf finds the readiness not ready while the device holds a packet: no
\* raw read is made for it
C14_Witness ==
    /\ last.op = "read_buf"
    /\ last.query = "NotReady"
    /\ last.res = "NotReady"
    /\ rxq # <<>>

\* C15: a call of a poll-based operation makes at most one raw attempt; when the
\* attempt fails with an error other than would-block, the call returns that
\* error, after that one attempt, without clearing the readiness, which stays
\* Ready as the query found it.
C15_ZeroRetries ==
    last.op \in PollOps =>
        /\ last.raws <= 1
        /\ last.raw = "Err" =>
             /\ last.res = "Err"
             /\ last.kind = "Io"
             /\ last.raws = 1
             /\ last.cleared = {}
             /\ io.cache[DirOf(last.op)] = "Ready"

\* start_send has met a failure of the raw write while the device had room
C15_Witness ==
    /\ last.op = "start_send"
    /\ last.raw = "Err"
    /\ last.res = "Err"
    /\ txq = <<>>

\* C16: a successful read of read_buf copies the bytes read into the caller's
\* buffer, never more than its room, and returns their count: it does not fail
\* when the room is smaller than the read.
C16_CopyWithinCapacity ==
    (last.op = "read_buf" /\ last.raw = "Ok") =>
        /\ last.res = "Ready"
        /\ BLen(last.val) <= last.cap
        /\ BLen(last.val) <= last.n

\* C17: no scratch buffer of a read holds more than 1600 bytes, and no write of
\* write_buf or start_send hands more than 1600 bytes to the raw write.
C17_FrameSizeBound ==
    /\ last.op \in ReadOps => BLen(last.got) <= FrameSize
    /\ (last.op \in {"write_buf", "start_send"} /\ last.raws = 1) =>
         (BLen(last.arg) <= FrameSize /\ last.wrote <= FrameSize)

\* C19: start_send returns NotReady only when nothing of the packet has reached
\* the device, on a not-ready query and on a would-block of the raw write alike,
\* and hands back the packet as submitted; an Accepted packet has reached the
\* device whole, by one raw write; so the device holds, or has passed on, exactly
\* one copy of each packet Accepted and not yet read, however often it was handed
\* back before.
C19_PendingMeansUnsent ==
    /\ (last.op = "start_send" /\ last.res = "NotReady") =>
          /\ last.val = last.arg
          /\ last.wrote = 0
          /\ last.moved = {}
          /\ (last.query = "NotReady" /\ last.raws = 0)
               \/ (last.raw = "WouldBlock" /\ last.raws = 1)
    /\ (last.op = "start_send" /\ last.res = "Ready") =>
          /\ last.raws = 1
          /\ last.wrote = BLen(last.arg)
          /\ last.moved = {"txq"}
    /\ Accepted(txq) + Accepted(rxq) = Len(sent)

\* a packet handed back on would-block while an Accepted packet fills the device
C19_Witness ==
    /\ last.op = "start_send"
    /\ last.raw = "WouldBlock"
    /\ last.res = "NotReady"
    /\ last.val = last.arg
    /\ Accepted(txq) = 1

\* the world without the marks that pending operations have left with the
\* reactor: the handle as if no operation had been left pending on it
Unparked(w) == [w EXCEPT !.io.wait = [d \in Dirs |-> FALSE]]

\* two outcomes of a call agree: in the call's record, the device's queues, the
\* cached readiness and the reactor's undelivered events
SameOutcome(a, b) ==
    /\ a.call = b.call
    /\ a.w.rxq = b.w.rxq
    /\ a.w.txq = b.w.txq
    /\ a.w.io.cache = b.w.io.cache
    /\ a.w.kev = b.w.kev

====
